---- MODULE Spec2Model ----
(***************************************************************************)
(* A model of the unbored terminal application (src/unbored): the ordered  *)
(* list of chosen activities held by the #activities container, the        *)
(* persisted JSON document, the focus owner, the filter panel and the      *)
(* message pumps that connect them.                                        *)
(*                                                                         *)
(* Scheduling.  Every widget has its own message pump.  A handler of the   *)
(* Main screen runs inside Main's pump, so while Main.on_button_pressed    *)
(* awaits the remote lookup or the mount, Main handles no other message;   *)
(* the user and the Filters panel go on acting meanwhile.  post_message    *)
(* only queues a message.                                                  *)
(*                                                                         *)
(* Activity.compose raises for every Activity, so the application stops    *)
(* when a mounted Activity is composed: a start with a non-empty document  *)
(* runs until the widgets it loaded are composed, and a lookup that        *)
(* returns an activity ends the run once the awaiting handler has written  *)
(* the document.  No run reaches a handler of a composed Activity.         *)
(* Filters.hide and Filters.show send their message with emit_no_wait,     *)
(* which only some versions of Textual have: where it is missing the       *)
(* application stops in Filters.on_mount, as it starts.  The variable call *)
(* records one application of such a handler to a list of widgets drawn    *)
(* from a bounded set: its arguments and what it returns, posts, registers *)
(* and opens.  An application leaves the screen untouched.                 *)
(*                                                                         *)
(* Specifications.  Spec is the application, with blank filters.           *)
(* SpecActivities adds the applications of the handlers of an Activity and *)
(* of Main's handlers for its messages, SpecMoves is the move handlers     *)
(* applied to longer lists, SpecCodec the writing and reading of the       *)
(* document as text, SpecFilters the building of a request from the filter *)
(* inputs and SpecInput the validation of the inputs.                      *)
(***************************************************************************)
EXTENDS Integers, Sequences, FiniteSets, TLC

\* Bounds of the model.
MaxWidgets == 2   \* Activity widgets the document gives the list at startup
MaxPending == 2   \* user-caused work (messages, callbacks) not yet handled

\* The longest persisted document at startup.
MaxInitial == MaxWidgets

\* The list controller alone (SpecMoves) is checked on longer lists.
MaxList == MaxWidgets + 1

\* The activity records the service can return.  No handler reads the
\* record; saved entries differ by chosen_at.
Payloads == {"walk"}

\* BoredActivity.link of an activity record: "walk" has none, "read" has one.
link(act) == IF act = "read" THEN "https://example.org/read" ELSE ""

VARIABLES
    activities, \* children of #activities, in order: [id, act, chosen_at]
    disk,       \* the persisted document: records [act, chosen_at], in order
    nextId,     \* number of Activity widgets created so far
    focus,      \* the focused widget's region: [region, id]
    shown,      \* Filters does not have the class "hidden"
    canFocus,   \* can_focus of the FilterInput fields
    mainQ,      \* messages waiting in Main's pump, oldest first
    filtQ,      \* DescendantBlur events waiting in the Filters pump
    fetch,      \* where Main.on_button_pressed stands
    inflight,   \* remote lookups started and not yet returned
    wrote,      \* the step just taken wrote the persisted document
    last,       \* the step just taken: [op, id]
    value,      \* the text of each FilterInput of the panel, by widget id
    options,    \* the options of the lookup in flight, by key
    edit,       \* the edit last tried on a FilterInput: [field, text, bell]
    notice,     \* the notification the step just taken raised with notify
    call        \* the handler the step just taken applied to a list of widgets

vars == << activities, disk, nextId, focus, shown, canFocus, mainQ, filtQ,
           fetch, inflight, wrote, last, value, options, edit,
           notice, call >>

\* The state of the screen.
svars == << activities, disk, nextId, focus, shown, canFocus, mainQ, filtQ,
            fetch, inflight, wrote, last, value, options, edit,
            notice >>

\* The state of the filter inputs and of the request.
fvars == << value, options, edit >>

----------------------------------------------------------------------------
\* Sequences of widgets

Ids(children) == { children[i].id : i \in 1..Len(children) }

IndexOf(children, a) ==
    CHOOSE i \in 1..Len(children) : children[i].id = a

InsertAt(children, i, w) ==
    [ j \in 1..(Len(children) + 1) |->
        IF j < i THEN children[j]
        ELSE IF j = i THEN w
        ELSE children[j - 1] ]

Without(children, a) ==
    SelectSeq(children, LAMBDA w : w.id # a)

\* Activity.as_dict: the fields of the activity record and chosen_at.
as_dict(w) == [act |-> w.act, chosen_at |-> w.chosen_at]

\* Activity.from_dict, for the i-th widget created.
from_dict(d, i) == [id |-> i, act |-> d.act, chosen_at |-> d.chosen_at]

\* Activity.__init__ without chosen_at: the i-th widget created takes the
\* time of its creation, which no other widget of the run has.
Activity(p, i) == [id |-> i, act |-> p, chosen_at |-> i]

Contents(children) ==
    [ i \in 1..Len(children) |-> as_dict(children[i]) ]

----------------------------------------------------------------------------
\* Focus

TypePicker == [region |-> "types", id |-> 0]
FilterPanel == [region |-> "filters", id |-> 0]
InActivity(a) == [region |-> "activity", id |-> a]

\* DescendantBlur events in the Filters pump after focus goes from old to new.
BlurCount(old, new, q) ==
    IF old.region = "filters" /\ new.region # "filters" THEN q + 1 ELSE q

\* TypeChoices.become_focused: focus the "any" button.
become_focused == TypePicker

----------------------------------------------------------------------------
\* Moving a child (Activity.action_move_up / action_move_down)

\* is_first testing the wrong end of the list.
is_first_of_reversed(children, a) ==
    Len(children) > 0 /\ children[Len(children)].id = a

is_first(children, a) ==
    Len(children) > 0 /\ children[1].id = a

is_last(children, a) ==
    Len(children) > 0 /\ children[Len(children)].id = a

\* The widget at a Python list index (0-based, negative counts from the end);
\* 0 when the index is out of range.
WidgetAt(children, index) ==
    LET n == Len(children)
        k == IF index < 0 THEN index + n ELSE index
    IN  IF k >= 0 /\ k < n THEN children[k + 1].id ELSE 0

\* A move that takes the child out of the list and never puts it back.
move_child_detaching(children, a, index, after) ==
    LET target == WidgetAt(children, index)
    IN  IF target = 0 \/ target = a THEN children
        ELSE Without(children, a)

\* Widget.move_child(child, before=index) or (child, after=index).
move_child(children, a, index, after) ==
    LET target == WidgetAt(children, index)
    IN  IF target = 0 \/ target = a THEN children
        ELSE LET w    == children[IndexOf(children, a)]
                 rest == Without(children, a)
                 t    == IndexOf(rest, target)
             IN  InsertAt(rest, IF after THEN t + 1 ELSE t, w)

\* A move up that names the target one place too far.
MovedUpTwo(children, a) ==
    move_child(children, a, (IndexOf(children, a) - 1) - 2, FALSE)

\* parent.move_child( self, before=parent.children.index( self ) - 1 )
MovedUp(children, a) ==
    move_child(children, a, (IndexOf(children, a) - 1) - 1, FALSE)

\* parent.move_child( self, after=parent.children.index( self ) + 1 )
MovedDown(children, a) ==
    move_child(children, a, (IndexOf(children, a) - 1) + 1, TRUE)

----------------------------------------------------------------------------
\* Removing a widget (Widget.remove, called after the refresh)

\* The focus after widget a leaves the DOM: a focused widget that is removed
\* hands the focus to the nearest focusable widget before it in the focus
\* chain (type buttons, then the activities in order) that is not being
\* removed with it.
reset_focus(children, f, a) ==
    IF f = InActivity(a) /\ a \in Ids(children)
    THEN IF IndexOf(children, a) = 1
         THEN TypePicker
         ELSE InActivity(children[IndexOf(children, a) - 1].id)
    ELSE f

\* Widget.remove: this widget leaves its parent's children; a widget that
\* has already left is not there to be taken out again.
remove(children, a) == Without(children, a)

\* The screen invokes every registered callback, in the order registered.
RECURSIVE invoke_and_clear_callbacks(_, _, _)
invoke_and_clear_callbacks(callbacks, children, f) ==
    IF callbacks = << >>
    THEN [children |-> children, focus |-> f]
    ELSE invoke_and_clear_callbacks(
             Tail(callbacks),
             remove(children, Head(callbacks)),
             reset_focus(children, f, Head(callbacks)))

----------------------------------------------------------------------------
\* Persistence

\* self.activities.mount( Activity( ... ), before=0 )
mount_before_0(children, w) == << w >> \o children

\* Main.save_activity_list: the document is rewritten whole from the
\* Activity widgets now in #activities.
save_activity_list(children) == Contents(children)

\* Main.load_activity_list: one widget per saved record, in the saved order.
load_activity_list(document) ==
    [ i \in 1..Len(document) |-> from_dict(document[i], i) ]

\* The documents an earlier run can have left: n records, each chosen at its
\* own time.
Document(n) ==
    [ i \in 1..n |-> [act |-> "walk", chosen_at |-> i] ]

\* The document d with an activity that has a link as its first record.
Linked(d) ==
    [ i \in 1..Len(d) |->
        IF i = 1 THEN [act |-> "read", chosen_at |-> i] ELSE d[i] ]

Documents ==
    { Document(n) : n \in 0..MaxInitial } \cup { Linked(Document(1)) }

----------------------------------------------------------------------------
\* The filter panel's inputs and the options they yield

\* The ids of the FilterInput widgets Filters.compose yields.
Fields == { "participants", "min_price", "max_price",
            "min_accessibility", "max_accessibility" }

\* IntInput for the participants, FloatInput for the ranged fields.
CAST(f) == IF f = "participants" THEN "int" ELSE "float"

\* The texts a user gives to an input.
Texts == { "", " 3 ", "0", "-1", "0.2", "0.5", "1.5", "nan", "abc" }

\* Python values: None, an int (v in units), a float (v in tenths, or nan),
\* and the ValueError a conversion raises.
None == [kind |-> "None", v |-> 0]
ValueError == [kind |-> "ValueError", v |-> 0]
PyInt(n) == [kind |-> "int", v |-> n]
PyFloat(n) == [kind |-> "float", v |-> n]
NaN == [kind |-> "nan", v |-> 0]

\* Comparison of two numbers; every comparison with nan is false.
IsNumber(x) == x.kind \in {"int", "float"}
Tenths(x) == IF x.kind = "int" THEN 10 * x.v ELSE x.v
lt(x, y) == IsNumber(x) /\ IsNumber(y) /\ Tenths(x) < Tenths(y)
le(x, y) == IsNumber(x) /\ IsNumber(y) /\ Tenths(x) <= Tenths(y)

\* str.strip
strip(t) == IF t = " 3 " THEN "3" ELSE t

\* int(str): optional surrounding whitespace, a sign and digits.
int(t) ==
    CASE strip(t) = "3"  -> PyInt(3)
      [] strip(t) = "0"  -> PyInt(0)
      [] strip(t) = "-1" -> PyInt(0 - 1)
      [] OTHER           -> ValueError

\* float(str): optional surrounding whitespace and a decimal number, or one
\* of the words float() knows.
float(t) ==
    CASE strip(t) = "3"   -> PyFloat(30)
      [] strip(t) = "0"   -> PyFloat(0)
      [] strip(t) = "-1"  -> PyFloat(0 - 10)
      [] strip(t) = "0.2" -> PyFloat(2)
      [] strip(t) = "0.5" -> PyFloat(5)
      [] strip(t) = "1.5" -> PyFloat(15)
      [] strip(t) = "nan" -> NaN
      [] OTHER            -> ValueError

Cast(cast, t) == IF cast = "int" THEN int(t) ELSE float(t)

\* A validation that lets every text through.
validate_value_unchecked(cast, new, old) == new

\* FilterInput.validate_value with the bell left out: the text the field
\* holds after the user tried to give it the text new.
validate_value(cast, new, old) ==
    IF strip(new) # "" /\ Cast(cast, new) = ValueError THEN old ELSE new

\* FilterInput.validate_value rings the bell.
bell(cast, new) == strip(new) # "" /\ Cast(cast, new) = ValueError

\* A participants filter that takes 0 for a number of participants.
participants_from_zero(text) ==
    LET number == int(strip(text))
    IN  IF number # ValueError /\ le(PyInt(0), number) THEN number ELSE None

\* Filters.participants
participants(text) ==
    LET number == int(strip(text))
    IN  IF number # ValueError /\ lt(PyInt(0), number) THEN number ELSE None

\* Filters.clamp
clamp(number, min_val, max_val) ==
    IF number = None THEN number
    ELSE IF lt(number, min_val) THEN min_val
    ELSE IF lt(max_val, number) THEN max_val
    ELSE number

\* _value inside Filters._min_max_value
_value(text) ==
    LET number == float(strip(text))
    IN  IF number = ValueError \/ le(number, PyInt(0)) THEN None ELSE number

\* A ranged filter that returns its two values as entered.
_min_max_value_as_entered(min_text, max_text) ==
    << clamp(_value(min_text), PyInt(0), PyInt(1)),
       clamp(_value(max_text), PyInt(0), PyInt(1)) >>

\* Filters._min_max_value, given the texts of the min and the max input.
_min_max_value(min_text, max_text) ==
    LET min_value == clamp(_value(min_text), PyInt(0), PyInt(1))
        max_value == clamp(_value(max_text), PyInt(0), PyInt(1))
    IN  IF min_value # None /\ max_value # None /\ lt(max_value, min_value)
        THEN << max_value, min_value >>
        ELSE << min_value, max_value >>

\* Filters.price and Filters.accessibility
price(v) == _min_max_value(v["min_price"], v["max_price"])
accessibility(v) ==
    _min_max_value(v["min_accessibility"], v["max_accessibility"])

\* The ids of the buttons TypeChoices.compose yields: "any", then one per
\* activity type.
ButtonIds == << "any", "education", "recreational" >>
Buttons == DOMAIN ButtonIds

\* The ids of the buttons lines 151-165 of Activity.compose yield, in their
\* order (the WebLink, there only for an activity with a link, has no id),
\* and the id of a button by its number, type buttons first.
ActivityButtonIds == << "up", "down", "None", "delete" >>
button_id(b) == (ButtonIds \o ActivityButtonIds)[b]
ButtonOf(id) ==
    CHOOSE b \in 1..(Len(ButtonIds) + Len(ActivityButtonIds)) : button_id(b) = id

\* A dict of no keys, and a dict of one key if the key is given.
NoOptions == << >>
Option(given, key, val) == IF given THEN key :> val ELSE NoOptions

\* The options Main.on_button_pressed builds for button b from the texts v
\* of the filter inputs.
build_options(b, v) ==
    LET number == participants(v["participants"])
        cost == price(v)
        ease == accessibility(v)
    IN  Option(button_id(b) \notin {"None", "any"}, "type", button_id(b))
        @@ Option(number # None, "participants", number)
        @@ Option(cost[1] # None, "min_price", cost[1])
        @@ Option(cost[2] # None, "max_price", cost[2])
        @@ Option(ease[1] # None, "min_accessibility", ease[1])
        @@ Option(ease[2] # None, "max_accessibility", ease[2])

\* No edit tried yet.
NoEdit == [field |-> "", text |-> "", bell |-> FALSE]

----------------------------------------------------------------------------
\* The persisted document as text

\* The members of bored_api.ActivityType, by name, and the value of each.
ActivityTypeValue == [ EDUCATION |-> "education", RECREATIONAL |-> "recreational" ]

ActivityTypes ==
    { [class |-> "ActivityType", name |-> n] : n \in DOMAIN ActivityTypeValue }

\* ActivityType( value ): the member that has the value.
ActivityType(code) ==
    CHOOSE member \in ActivityTypes : ActivityTypeValue[member.name] = code

\* datetime.isoformat: date, "T", time, and the microseconds unless they are
\* zero.  The text is held as the sequence of its parts.
isoformat(dt) ==
    IF dt.microsecond = 0
    THEN << dt.date, "T", dt.time >>
    ELSE << dt.date, "T", dt.time, ".", dt.microsecond >>

\* datetime.fromisoformat
fromisoformat(text) ==
    [ class |-> "datetime", date |-> text[1], time |-> text[3],
      microsecond |-> IF Len(text) > 3 THEN text[5] ELSE 0 ]

\* An encoder that writes a time to the second.
default_to_the_second(o) ==
    IF o.class = "ActivityType"
    THEN ActivityTypeValue[o.name]
    ELSE << o.date, "T", o.time >>

\* ActivityEncoder.default, for the two kinds of value json cannot write
\* itself: a member of ActivityType and a datetime.
default(o) ==
    IF o.class = "ActivityType"
    THEN ActivityTypeValue[o.name]
    ELSE isoformat(o)

\* dumps( [ activity.as_dict ... ], cls=ActivityEncoder ) in
\* Main.save_activity_list: the document written for the children.
dumps(children) ==
    [ i \in 1..Len(children) |->
        [ act |-> [ as_dict(children[i]).act EXCEPT !.type = default(@) ],
          chosen_at |-> default(as_dict(children[i]).chosen_at) ] ]

\* The loop of Main.load_activity_list with Activity.from_dict: the widgets
\* made from the document read.
loads(document) ==
    [ i \in 1..Len(document) |->
        from_dict([ act |-> [ document[i].act EXCEPT !.type = ActivityType(@) ],
                    chosen_at |-> fromisoformat(document[i].chosen_at) ], i) ]

\* The activities the service returns, and the times one is chosen at.
BoredActivities ==
    { [ key |-> "3943506", activity |-> "Learn Express.js", type |-> t,
        participants |-> 1, price |-> PyFloat(1), accessibility |-> PyFloat(2),
        link |-> l ]
        : t \in ActivityTypes, l \in {"", "https://expressjs.com/"} }

Datetimes ==
    { [ class |-> "datetime", date |-> "2023-03-05", time |-> t,
        microsecond |-> us ]
        : t \in {"10:15:30"}, us \in {0, 250000, 999999} }

----------------------------------------------------------------------------
\* Messages and pumps

\* What self.notify shows: nothing, or the text of Main.on_button_pressed
\* for a lookup that found no activity.
NoNotice == ""
NoMatch == "Unable to find any activities that satisfy the current filters."

Msg(m, a) == [msg |-> m, id |-> a]
Step(op, a) == [op |-> op, id |-> a]

Running == fetch # "crashed"

\* The Button.Pressed of the button id as the first handler gets it: no
\* handler has stopped it.
ButtonPressed(id) ==
    [msg |-> "Pressed", id |-> ButtonOf(id), stopped |-> FALSE]

\* A handler that does not call event.stop().
stop_left_out(event) == event

\* event.stop(): the message is marked, and is passed on no further.
stop(event) == [event EXCEPT !.stopped = TRUE]

\* What goes on to Main once the handler of the Activity has returned: the
\* Button.Pressed bubbles, unless the handler stopped it.
bubble(event) ==
    IF event.stopped THEN << >> ELSE << Msg(event.msg, event.id) >>

\* Main.on_button_pressed is a coroutine that Main's pump awaits: the pump
\* takes its next message when no handler of Main is suspended in an await.
MainReady == fetch = "idle"

MainHandles(m) ==
    /\ MainReady
    /\ mainQ # << >>
    /\ Head(mainQ).msg = m

\* The user starts a new operation only while less than MaxPending earlier
\* ones are still waiting to be handled.
Pending == Len(mainQ) + filtQ

UserRoom == Running /\ Pending < MaxPending

\* No handler has been applied yet.  A handler applied to a list of widgets
\* is recorded with what it was given (the activity and button, the
\* children of #activities, the focus, the callbacks registered) and what
\* it gave (the children and the focus after it, the DescendantBlur events
\* it raised for Filters, the messages that go to Main, the callbacks it
\* registered, the links it opened, the text or the document it wrote).
NoCall ==
    [ op |-> "", id |-> 0, button |-> "", children |-> << >>,
      focus |-> TypePicker, callbacks |-> << >>, after |-> << >>,
      focus_after |-> TypePicker, blurs |-> 0, posted |-> << >>,
      registered |-> << >>,
      opened |-> << >>, text |-> << >>, document |-> << >> ]

\* The application as it starts, Main.on_mount and Filters.on_mount done.
\* Main.load_activity_list has mounted one Activity for each record of the
\* document, without awaiting the mount: the widgets are children of
\* #activities and none has been composed yet.  Filters.on_mount has called
\* hide, whose emit_no_wait either sent Hidden to Main or, in a Textual
\* without that method, raised AttributeError and stopped the application.
Init ==
    /\ disk \in Documents
    /\ activities = load_activity_list(disk)
    /\ nextId = Len(disk)
    /\ focus = become_focused
    /\ shown = FALSE
    /\ canFocus = FALSE
    /\ \/ mainQ = << Msg("Hidden", 0) >> /\ fetch = "idle"
       \/ mainQ = << >> /\ fetch = "crashed"
    /\ filtQ = 0
    /\ inflight = 0
    /\ wrote = FALSE
    /\ notice = NoNotice
    /\ last = Step("on_mount", 0)
    /\ call = NoCall
    /\ value = [f \in Fields |-> ""]
    /\ options = NoOptions
    /\ edit = NoEdit

----------------------------------------------------------------------------
\* The type picker

\* A type button ("any" or a type) is pressed: the button takes the focus and
\* its Button.Pressed bubbles to Main.
press_type_button(b) ==
    /\ UserRoom
    /\ focus' = TypePicker
    /\ filtQ' = BlurCount(focus, TypePicker, filtQ)
    /\ mainQ' = Append(mainQ, Msg("Pressed", b))
    /\ wrote' = FALSE
    /\ notice' = NoNotice
    /\ last' = Step("press_type_button", 0)
    /\ call' = NoCall
    /\ UNCHANGED fvars
    /\ UNCHANGED << activities, disk, nextId, shown, canFocus, fetch, inflight >>

\* Tab or shift+tab brings the focus to the type picker.
focus_type_picker ==
    /\ Running
    /\ focus # TypePicker
    /\ focus' = TypePicker
    /\ filtQ' = BlurCount(focus, TypePicker, filtQ)
    /\ wrote' = FALSE
    /\ notice' = NoNotice
    /\ last' = Step("focus_type_picker", 0)
    /\ call' = NoCall
    /\ UNCHANGED fvars
    /\ UNCHANGED << activities, disk, nextId, shown, canFocus, mainQ,
                    fetch, inflight >>

----------------------------------------------------------------------------
\* An activity: what each of its handlers does to the children of
\* #activities, given as functions of the list.  In the application as given
\* no run calls them: the buttons and the focus they are called from exist
\* only in an Activity that has composed (see compose_raises).

\* What a handler leaves: the children, the messages posted to Main, the
\* callbacks registered with call_after_refresh and the links opened.
Outcome(children, posted, registered, opened) ==
    [ children |-> children, posted |-> posted, registered |-> registered,
      opened |-> opened ]

\* Activity.action_move_up, from the "up" button or ctrl+up.
action_move_up(children, a) ==
    IF ~is_first(children, a)
    THEN Outcome(MovedUp(children, a), << Msg("Moved", 0) >>, << >>, << >>)
    ELSE Outcome(children, << >>, << >>, << >>)

\* Activity.action_move_down, from the "down" button or ctrl+down.
action_move_down(children, a) ==
    IF ~is_last(children, a)
    THEN Outcome(MovedDown(children, a), << Msg("Moved", 0) >>, << >>, << >>)
    ELSE Outcome(children, << >>, << >>, << >>)

\* Activity.drop_activity, from the "delete" button or the "d" binding: the
\* Dropped message is posted and the remove is left for after the refresh.
drop_activity(children, a) ==
    Outcome(children, << Msg("Dropped", a) >>, << a >>, << >>)

\* WebLink.visit: the link of the activity is opened.
visit(children, a) ==
    Outcome(children, << >>, << >>,
            << link(children[IndexOf(children, a)].act) >>)

\* Activity.action_delete, the "d" binding.
action_delete(children, a) == drop_activity(children, a)

\* Activity.BINDINGS: the action of each key.
BINDINGS ==
    [ d |-> "delete", ctrl_up |-> "move_up", ctrl_down |-> "move_down",
      escape |-> "deselect" ]

\* Activity.action_deselect, the escape binding of the focused activity.
action_deselect(children, a) ==
    Outcome(children, << Msg("Deselect", 0) >>, << >>, << >>)

\* Activity.on_button_pressed for the button id of activity a: the event is
\* stopped, then the button's operation is done; what the handler posted
\* goes to Main, and after it the event, if it still bubbles.
Activity_on_button_pressed(children, a, id) ==
    LET event == stop(ButtonPressed(id))
        done == CASE id = "delete" -> drop_activity(children, a)
                  [] id = "up" -> action_move_up(children, a)
                  [] id = "down" -> action_move_down(children, a)
                  [] OTHER -> visit(children, a)
    IN  [done EXCEPT !.posted = done.posted \o bubble(event)]

\* Activity.on_mouse_down, with the focus at f: unless the focus is within
\* the activity already, its first button takes it.
on_mouse_down(f, a) ==
    IF f # InActivity(a) THEN InActivity(a) ELSE f

\* The one-to-one maps of 1..n onto itself.
Orders(n) ==
    { p \in [1..n -> 1..n] : \A i, j \in 1..n : p[i] = p[j] => i = j }

\* The lists moves can make of the widgets loaded from a document of up to
\* max records.
Lists(max) ==
    UNION { { [ i \in 1..Len(d) |-> load_activity_list(d)[p[i]] ] :
                p \in Orders(Len(d)) } :
            d \in { Document(n) : n \in 0..max }
                  \cup { Linked(Document(n)) : n \in 1..max } }

\* The widgets that can hold the focus beside a list.
FocusIn(children) ==
    {TypePicker, FilterPanel} \cup { InActivity(a) : a \in Ids(children) }

\* The sequences of one or two callbacks registered for widgets of ids.
Removes(ids) ==
    { << a >> : a \in ids } \cup { << a, b >> : a \in ids, b \in ids }

\* A handler is applied to a list beside the application as it starts,
\* before its first step, one handler to one list at a time.
Beside == last.op = "on_mount" /\ call = NoCall

\* The Button.Pressed of button id of activity a of the list children gets
\* to Activity.on_button_pressed while f has the focus: the first button of
\* the activity since Activity.on_mouse_down (click_activity, the handler of
\* the earlier MouseDown), or another widget when a handler that ran in
\* between has moved it.  The handler itself leaves the focus where it is.
press_activity_button(children, f, a, id) ==
    /\ Beside
    /\ a \in Ids(children)
    /\ id = "None" => link(children[IndexOf(children, a)].act) # ""
    /\ LET done == Activity_on_button_pressed(children, a, id)
       IN  call' = [ NoCall EXCEPT
                       !.op = "on_button_pressed", !.id = a, !.button = id,
                       !.children = children, !.focus = f,
                       !.after = done.children,
                       !.focus_after = f,
                       !.posted = done.posted,
                       !.registered = done.registered,
                       !.opened = done.opened ]
    /\ UNCHANGED svars

\* The mouse button goes down within activity a, on one of its buttons or
\* off them, while f has the focus: Activity.on_mouse_down.  A focus that
\* leaves the filter panel raises a DescendantBlur for Filters.
click_activity(children, f, a) ==
    /\ Beside
    /\ a \in Ids(children)
    /\ call' = [ NoCall EXCEPT
                   !.op = "on_mouse_down", !.id = a,
                   !.children = children, !.focus = f,
                   !.after = children,
                   !.focus_after = on_mouse_down(f, a),
                   !.blurs = BlurCount(f, on_mouse_down(f, a), 0) ]
    /\ UNCHANGED svars

\* Main.on_activity_moved, on the Moved of an activity: the list as it then
\* is becomes the document.
on_activity_moved(children, f) ==
    /\ Beside
    /\ call' = [ NoCall EXCEPT
                   !.op = "on_activity_moved",
                   !.children = children, !.focus = f,
                   !.after = children, !.focus_after = f,
                   !.document = save_activity_list(children) ]
    /\ UNCHANGED svars

\* Main.on_activity_dropped, on the Dropped of an activity: the list as it
\* then is, with or without the activity, becomes the document.
on_activity_dropped(children, f) ==
    /\ Beside
    /\ call' = [ NoCall EXCEPT
                   !.op = "on_activity_dropped",
                   !.children = children, !.focus = f,
                   !.after = children, !.focus_after = f,
                   !.document = save_activity_list(children) ]
    /\ UNCHANGED svars

\* A key bound by Activity.BINDINGS is pressed while the focus is within
\* activity a: the action bound to it is run.
press_key(children, a, key) ==
    /\ Beside
    /\ a \in Ids(children)
    /\ LET action == BINDINGS[key]
           done == CASE action = "delete" -> action_delete(children, a)
                     [] action = "move_up" -> action_move_up(children, a)
                     [] action = "move_down" -> action_move_down(children, a)
                     [] OTHER -> action_deselect(children, a)
       IN  call' = [ NoCall EXCEPT
                       !.op = "action_" \o action, !.id = a,
                       !.children = children, !.focus = InActivity(a),
                       !.after = done.children,
                       !.focus_after = InActivity(a),
                       !.posted = done.posted,
                       !.registered = done.registered ]
    /\ UNCHANGED svars

\* Main.on_activity_deselect, on the Deselect of an activity.  A focus that
\* leaves the filter panel raises a DescendantBlur for Filters.
on_activity_deselect(children, f) ==
    /\ Beside
    /\ call' = [ NoCall EXCEPT
                   !.op = "on_activity_deselect",
                   !.children = children, !.focus = f,
                   !.after = children, !.focus_after = become_focused,
                   !.blurs = BlurCount(f, become_focused, 0) ]
    /\ UNCHANGED svars

\* The screen invokes the callbacks registered with call_after_refresh: the
\* removes that Activity.drop_activity put off.
run_callbacks(children, f, callbacks) ==
    /\ Beside
    /\ LET after == invoke_and_clear_callbacks(callbacks, children, f)
       IN  call' = [ NoCall EXCEPT
                       !.op = "remove", !.id = Head(callbacks),
                       !.children = children, !.focus = f,
                       !.callbacks = callbacks,
                       !.after = after.children,
                       !.focus_after = after.focus,
                       !.blurs = BlurCount(f, after.focus, 0) ]
    /\ UNCHANGED svars

----------------------------------------------------------------------------
\* The filter panel

\* Tab, shift+tab or a click brings the focus to a filter input (one of the
\* panel's own inputs loses it when the focus was already in the panel).
focus_filter_input ==
    /\ UserRoom
    /\ canFocus
    /\ focus' = FilterPanel
    /\ filtQ' = IF focus = FilterPanel THEN filtQ + 1 ELSE filtQ
    /\ wrote' = FALSE
    /\ notice' = NoNotice
    /\ last' = Step("focus_filter_input", 0)
    /\ call' = NoCall
    /\ UNCHANGED fvars
    /\ UNCHANGED << activities, disk, nextId, shown, canFocus, mainQ,
                    fetch, inflight >>

\* Filters.show: the inputs become focusable, the first takes the focus and
\* the class "hidden" goes.  (Main has no handler for Shown.)  When an input
\* of the panel still has the focus (the panel was closed and Main has not
\* taken the Hidden yet), it is the first input, which keeps the focus, or
\* another one, which loses it: a DescendantBlur for Filters.
show ==
    /\ canFocus' = TRUE
    /\ focus' = FilterPanel
    /\ shown' = TRUE
    /\ filtQ' \in (IF focus = FilterPanel THEN {filtQ, filtQ + 1}
                                          ELSE {filtQ})
    /\ UNCHANGED mainQ

\* Filters.hide: the class "hidden" is added, the inputs stop being
\* focusable and Hidden is sent to Main with emit_no_wait.  An application
\* that runs has got past the hide of Filters.on_mount (see Init), so its
\* Textual has emit_no_wait and the message reaches Main's queue.
hide ==
    /\ shown' = FALSE
    /\ canFocus' = FALSE
    /\ mainQ' = Append(mainQ, Msg("Hidden", 0))

\* Main.action_filters, the "f" binding: toggle the panel.
action_filters ==
    /\ UserRoom
    /\ IF shown
       THEN hide /\ UNCHANGED << focus, filtQ >>
       ELSE show
    /\ wrote' = FALSE
    /\ notice' = NoNotice
    /\ last' = Step("action_filters", 0)
    /\ call' = NoCall
    /\ UNCHANGED fvars
    /\ UNCHANGED << activities, disk, nextId, fetch, inflight >>

\* Filters.action_close, the escape binding while the focus is in the panel.
action_close ==
    /\ UserRoom
    /\ focus = FilterPanel
    /\ hide
    /\ wrote' = FALSE
    /\ notice' = NoNotice
    /\ last' = Step("action_close", 0)
    /\ call' = NoCall
    /\ UNCHANGED fvars
    /\ UNCHANGED << activities, disk, nextId, focus, filtQ, fetch,
                    inflight >>

\* Filters.on_descendant_blur, in the Filters pump: auto-close when the focus
\* is no longer within the panel.
on_descendant_blur ==
    /\ Running
    /\ filtQ > 0
    /\ filtQ' = filtQ - 1
    /\ IF focus # FilterPanel
       THEN hide
       ELSE UNCHANGED << shown, canFocus, mainQ >>
    /\ wrote' = FALSE
    /\ notice' = NoNotice
    /\ last' = Step("on_descendant_blur", 0)
    /\ call' = NoCall
    /\ UNCHANGED fvars
    /\ UNCHANGED << activities, disk, nextId, focus, fetch,
                    inflight >>

----------------------------------------------------------------------------
\* The filter inputs

\* The user, typing in the focused input f, makes its text t: the reactive
\* value runs FilterInput.validate_value on it.
set_value(f, t) ==
    /\ Running
    /\ focus = FilterPanel
    /\ value' = [value EXCEPT ![f] = validate_value(CAST(f), t, value[f])]
    /\ edit' = [field |-> f, text |-> t, bell |-> bell(CAST(f), t)]
    /\ wrote' = FALSE
    /\ notice' = NoNotice
    /\ last' = Step("validate_value", 0)
    /\ call' = NoCall
    /\ UNCHANGED << activities, disk, nextId, focus, shown, canFocus, mainQ,
                    filtQ, fetch, inflight, options >>

----------------------------------------------------------------------------
\* Main's pump

\* A handler that starts the remote lookup and returns without awaiting it.
on_button_pressed_not_awaiting ==
    /\ MainHandles("Pressed")
    /\ mainQ' = Tail(mainQ)
    /\ fetch' = "idle"
    /\ inflight' = inflight + 1
    /\ wrote' = FALSE
    /\ notice' = NoNotice
    /\ last' = Step("on_button_pressed", 0)
    /\ call' = NoCall
    /\ options' = build_options(Head(mainQ).id, value)
    /\ UNCHANGED << value, edit >>
    /\ UNCHANGED << activities, disk, nextId, focus, shown, canFocus, filtQ >>

\* Main.on_button_pressed up to its first await: the options are built and
\* the remote lookup is started.
on_button_pressed ==
    /\ MainHandles("Pressed")
    /\ mainQ' = Tail(mainQ)
    /\ fetch' = "get"
    /\ inflight' = inflight + 1
    /\ wrote' = FALSE
    /\ notice' = NoNotice
    /\ last' = Step("on_button_pressed", 0)
    /\ call' = NoCall
    /\ options' = build_options(Head(mainQ).id, value)
    /\ UNCHANGED << value, edit >>
    /\ UNCHANGED << activities, disk, nextId, focus, shown, canFocus, filtQ >>

\* An insert that gives the focus to the activity it mounts.
get_returns_focusing(p) ==
    /\ fetch = "get"
    /\ nextId' = nextId + 1
    /\ activities' = mount_before_0(activities, Activity(p, nextId + 1))
    /\ focus' = InActivity(nextId + 1)
    /\ fetch' = "mount"
    /\ inflight' = inflight - 1
    /\ wrote' = FALSE
    /\ notice' = NoNotice
    /\ last' = Step("get_returns", nextId + 1)
    /\ call' = NoCall
    /\ options' = NoOptions
    /\ UNCHANGED << value, edit >>
    /\ UNCHANGED << disk, shown, canFocus, mainQ, filtQ >>

\* api.get returns an activity: a new Activity widget is mounted before
\* child 0 and the handler awaits the mount.
get_returns(p) ==
    /\ fetch = "get"
    /\ nextId' = nextId + 1
    /\ activities' = mount_before_0(activities, Activity(p, nextId + 1))
    /\ fetch' = "mount"
    /\ inflight' = inflight - 1
    /\ wrote' = FALSE
    /\ notice' = NoNotice
    /\ last' = Step("get_returns", nextId + 1)
    /\ call' = NoCall
    /\ options' = NoOptions
    /\ UNCHANGED << value, edit >>
    /\ UNCHANGED << disk, focus, shown, canFocus, mainQ, filtQ >>

\* Activity.compose is run for a mounted widget, one the document gave or
\* the one a lookup returned, and raises NameError: calc_accessibility,
\* calc_party and calc_price are functions of the class body, no names a
\* method can call bare.  The exception goes to the application, which
\* stops; a handler that awaits the mount is released first, and a lookup
\* still awaited is given up.
compose_raises ==
    /\ fetch \in {"idle", "get", "mount"}
    /\ activities # << >>
    /\ fetch' = (IF fetch = "mount" THEN "raised" ELSE "crashed")
    /\ wrote' = FALSE
    /\ notice' = NoNotice
    /\ inflight' = 0
    /\ last' = Step("compose", activities[1].id)
    /\ call' = NoCall
    /\ UNCHANGED fvars
    /\ UNCHANGED << activities, disk, nextId, focus, shown, canFocus, mainQ,
                    filtQ >>

\* Main.on_button_pressed is resumed after the await of the mount and saves
\* the list as it then is (line 160); the application has stopped by the
\* time the handler has returned.
mount_returns ==
    /\ fetch = "raised"
    /\ disk' = save_activity_list(activities)
    /\ fetch' = "crashed"
    /\ wrote' = TRUE
    /\ notice' = NoNotice
    /\ last' = Step("save_activity_list", nextId)
    /\ call' = NoCall
    /\ UNCHANGED fvars
    /\ UNCHANGED << activities, nextId, focus, shown, canFocus, mainQ, filtQ,
                    inflight >>

\* A handler that saves the list whether or not the lookup succeeded.
get_no_match_saving ==
    /\ fetch = "get"
    /\ fetch' = "idle"
    /\ inflight' = inflight - 1
    /\ disk' = save_activity_list(activities)
    /\ wrote' = TRUE
    /\ notice' = NoMatch
    /\ last' = Step("get_no_match", 0)
    /\ call' = NoCall
    /\ options' = NoOptions
    /\ UNCHANGED << value, edit >>
    /\ UNCHANGED << activities, nextId, focus, shown, canFocus, mainQ,
                    filtQ >>

\* api.get raises BoredException (no activity matches): the handler notifies
\* the user and returns.
get_no_match ==
    /\ fetch = "get"
    /\ fetch' = "idle"
    /\ inflight' = inflight - 1
    /\ wrote' = FALSE
    /\ notice' = NoMatch
    /\ last' = Step("get_no_match", 0)
    /\ call' = NoCall
    /\ options' = NoOptions
    /\ UNCHANGED << value, edit >>
    /\ UNCHANGED << activities, disk, nextId, focus, shown, canFocus, mainQ,
                    filtQ >>

\* The lookup fails on a fault of the network or the service.  bored_api
\* raises it as a BoredException, which the handler answers as it answers
\* every BoredException, or as another exception, which nothing in the
\* handler catches: it leaves the handler and the application stops.
get_fault(bored) ==
    /\ fetch = "get"
    /\ fetch' = (IF bored THEN "idle" ELSE "crashed")
    /\ inflight' = inflight - 1
    /\ wrote' = FALSE
    /\ notice' = (IF bored THEN NoMatch ELSE NoNotice)
    /\ last' = Step("get_fault", 0)
    /\ call' = NoCall
    /\ options' = NoOptions
    /\ UNCHANGED << value, edit >>
    /\ UNCHANGED << activities, disk, nextId, focus, shown, canFocus, mainQ,
                    filtQ >>

\* Main.on_filters_hidden
on_filters_hidden ==
    /\ MainHandles("Hidden")
    /\ mainQ' = Tail(mainQ)
    /\ focus' = become_focused
    /\ filtQ' = BlurCount(focus, become_focused, filtQ)
    /\ wrote' = FALSE
    /\ notice' = NoNotice
    /\ last' = Step("on_filters_hidden", 0)
    /\ call' = NoCall
    /\ UNCHANGED fvars
    /\ UNCHANGED << activities, disk, nextId, shown, canFocus, fetch, inflight >>

----------------------------------------------------------------------------
\* The application as given.  No Activity composes, so the list offers the
\* user no button and no focus: a run has no move, no delete and no click
\* on an activity, and Main gets no Moved, Dropped or Deselect.
Next ==
    \/ \E b \in Buttons : press_type_button(b)
    \/ focus_type_picker
    \/ focus_filter_input
    \/ action_filters
    \/ action_close
    \/ on_descendant_blur
    \/ on_button_pressed
    \/ \E p \in Payloads : get_returns(p)
    \/ compose_raises
    \/ mount_returns
    \/ get_no_match
    \/ \E bored \in BOOLEAN : get_fault(bored)
    \/ on_filters_hidden

Spec == Init /\ [][Next]_vars

----------------------------------------------------------------------------
\* The application as given, and beside it, as it starts, the handlers it
\* never gets to call, each applied to the lists of up to MaxWidgets widgets.

NextCalls ==
    \/ \E children \in Lists(MaxWidgets) :
         \E f \in FocusIn(children), a \in Ids(children),
            i \in DOMAIN ActivityButtonIds :
              press_activity_button(children, f, a, ActivityButtonIds[i])
    \/ \E children \in Lists(MaxWidgets) :
         \E f \in FocusIn(children), a \in Ids(children) :
              click_activity(children, f, a)
    \/ \E children \in Lists(MaxWidgets) :
         \E f \in FocusIn(children) : on_activity_moved(children, f)
    \/ \E children \in Lists(MaxWidgets) :
         \E f \in FocusIn(children) : on_activity_dropped(children, f)
    \/ \E children \in Lists(MaxWidgets) :
         \E a \in Ids(children), key \in DOMAIN BINDINGS :
              press_key(children, a, key)
    \/ \E children \in Lists(MaxWidgets) :
         \E f \in FocusIn(children) : on_activity_deselect(children, f)
    \/ \E children \in Lists(MaxWidgets) :
         \E f \in FocusIn(children), callbacks \in Removes(Ids(children)) :
              run_callbacks(children, f, callbacks)

NextActivities == Next \/ NextCalls

SpecActivities == Init /\ [][NextActivities]_vars

----------------------------------------------------------------------------
\* The request alone: the filter inputs hold any texts their validation
\* lets them hold, a type button is pressed and the lookup finds no match.

InitFilters ==
    /\ disk = << >>
    /\ activities = load_activity_list(disk)
    /\ nextId = Len(disk)
    /\ focus = become_focused
    /\ shown = FALSE
    /\ canFocus = FALSE
    /\ mainQ = << >>
    /\ filtQ = 0
    /\ fetch = "idle"
    /\ inflight = 0
    /\ wrote = FALSE
    /\ notice = NoNotice
    /\ last = Step("on_mount", 0)
    /\ call = NoCall
    /\ value \in { v \in [Fields -> Texts] :
                     \A f \in Fields : validate_value(CAST(f), v[f], "") = v[f] }
    /\ options = NoOptions
    /\ edit = NoEdit

NextFilters ==
    \/ \E b \in Buttons : press_type_button(b)
    \/ on_button_pressed
    \/ get_no_match

SpecFilters == InitFilters /\ [][NextFilters]_vars

----------------------------------------------------------------------------
\* The inputs alone: the panel is open, an input has the focus and the user
\* edits the fields.

InitInput ==
    /\ disk = << >>
    /\ activities = load_activity_list(disk)
    /\ nextId = Len(disk)
    /\ focus = FilterPanel
    /\ shown = TRUE
    /\ canFocus = TRUE
    /\ mainQ = << >>
    /\ filtQ = 0
    /\ fetch = "idle"
    /\ inflight = 0
    /\ wrote = FALSE
    /\ notice = NoNotice
    /\ last = Step("on_mount", 0)
    /\ call = NoCall
    /\ value = [f \in Fields |-> ""]
    /\ options = NoOptions
    /\ edit = NoEdit

NextInput == \E f \in Fields, t \in Texts : set_value(f, t)

SpecInput == InitInput /\ [][NextInput]_vars

----------------------------------------------------------------------------
\* The document alone: Main.save_activity_list applied to a list of
\* activities, and Main.load_activity_list applied to the text it wrote.

\* The lists of up to MaxWidgets activities.
Activities ==
    UNION { { [ i \in 1..n |->
                  [id |-> i, act |-> acts[i], chosen_at |-> times[i]] ] :
                acts \in [1..n -> BoredActivities],
                times \in [1..n -> Datetimes] } :
            n \in 0..MaxWidgets }

\* Main.save_activity_list, the document as the text written.
write_text(children) ==
    /\ Beside
    /\ call' = [ NoCall EXCEPT
                   !.op = "save_activity_list", !.children = children,
                   !.text = dumps(children) ]
    /\ UNCHANGED svars

\* Main.load_activity_list, on the text just written.
read_text ==
    /\ last.op = "on_mount"
    /\ call.op = "save_activity_list"
    /\ call' = [ call EXCEPT
                   !.op = "load_activity_list", !.after = loads(call.text) ]
    /\ UNCHANGED svars

NextCodec ==
    \/ \E children \in Activities : write_text(children)
    \/ read_text

SpecCodec == Init /\ [][NextCodec]_vars

----------------------------------------------------------------------------
\* The moves alone: the buttons "up" and "down" of each activity of the
\* lists of up to MaxList widgets.

NextMoves ==
    \E children \in Lists(MaxList) :
       \E a \in Ids(children), id \in {"up", "down"} :
          press_activity_button(children, TypePicker, a, id)

SpecMoves == Init /\ [][NextMoves]_vars

----------------------------------------------------------------------------
\* Properties

\* new is old with the elements at i and i + 1 exchanged and nothing else
\* changed.
Exchanged(old, new, i) ==
    /\ Len(new) = Len(old)
    /\ new[i] = old[i + 1]
    /\ new[i + 1] = old[i]
    /\ \A j \in 1..Len(old) : j \notin {i, i + 1} => new[j] = old[j]

\* The handler last applied was Activity.on_button_pressed for button id.
Pressed(id) == call.op = "on_button_pressed" /\ call.button = id

\* C3: move_up of the activity at index i > 0 exchanges exactly the elements
\* at i-1 and i, move_down of the activity at index i < last exchanges exactly
\* those at i and i+1; every other position and the length are unchanged.
C3_MoveExchangesNeighbours ==
    call.op = "on_button_pressed"
        => LET i == IndexOf(call.children, call.id)
           IN  /\ (call.button = "up" /\ i > 1)
                     => Exchanged(call.children, call.after, i - 1)
               /\ (call.button = "down" /\ i < Len(call.children))
                     => Exchanged(call.children, call.after, i)

\* C3 witness: a move up of the last of three activities has placed it
\* above its neighbour and posted Moved.
C3_Witness ==
    /\ Pressed("up")
    /\ Len(call.children) = 3
    /\ call.children[3].id = call.id
    /\ call.after[2].id = call.id
    /\ call.posted = << Msg("Moved", 0) >>

\* C4: move_up on the first activity and move_down on the last leave the
\* list unchanged and post no Moved, the one message Main answers with a
\* write; no callback is registered either.
C4_BoundaryMoveIsNoOp ==
    (\/ Pressed("up") /\ call.children[1].id = call.id
     \/ Pressed("down") /\ call.children[Len(call.children)].id = call.id)
        => /\ call.after = call.children
           /\ call.posted = << >>
           /\ call.registered = << >>

\* C4 witness: move_up has been asked of the first of several activities
\* and nothing was posted.
C4_Witness ==
    /\ Pressed("up")
    /\ Len(call.children) >= 2
    /\ call.children[1].id = call.id
    /\ call.posted = << >>

\* C5: a successful fetch puts the new activity at the head of the list, the
\* earlier elements keeping their order, and the handler then rewrites the
\* document to the list in memory (one element when the list was empty) and
\* returns, the application going on with that list.
C5_FetchInsertsAtHeadAndSaves ==
    [][ /\ last'.op = "get_returns"
            => /\ Len(activities') = Len(activities) + 1
               /\ activities'[1].id = last'.id
               /\ activities'[1].id \notin Ids(activities)
               /\ Tail(activities') = activities
        /\ (fetch \in {"mount", "raised"} /\ fetch' \notin {"mount", "raised"})
            => /\ wrote'
               /\ activities' = activities
               /\ disk' = Contents(activities)
               /\ \E i \in 1..Len(disk') : disk'[i].chosen_at = nextId
               /\ Len(activities) = 1 => disk' = << as_dict(activities[1]) >>
               /\ fetch' = "idle"
      ]_vars

\* C6: a lookup that fails, with no match or with a fault, changes neither
\* the list nor the document and writes nothing.
C6_FailedFetchChangesNothing ==
    [][ last'.op \in {"get_no_match", "get_fault"}
            => /\ activities' = activities
               /\ disk' = disk
               /\ ~wrote'
      ]_vars

\* C6 witness: a lookup has just failed on a fault that nothing caught,
\* with two activities in the list and in the document; nothing was written.
C6_Witness ==
    /\ last.op = "get_fault"
    /\ ~Running
    /\ Len(activities) = 2
    /\ disk = Contents(activities)
    /\ ~wrote

\* C7: at most one remote lookup is in flight at any time.
C7_OneLookupInFlight ==
    inflight <= 1

\* C7 witness: a lookup is in flight and another press of a type button is
\* waiting in Main's pump.
C7_Witness ==
    /\ inflight = 1
    /\ \E i \in 1..Len(mainQ) : mainQ[i].msg = "Pressed"

----------------------------------------------------------------------------
\* The request

\* The min and max input of each ranged filter.
Ranged == { << "min_price", "max_price" >>,
            << "min_accessibility", "max_accessibility" >> }

\* Main.on_button_pressed has just built the options from the texts.
Built == last.op = "on_button_pressed"

\* The number nearest to x that is not above 1, in tenths.
AtMostOne(x) == IF Tenths(x) > 10 THEN 10 ELSE Tenths(x)

\* C11 as stated, for a min entry above 0: whenever the min entry of a
\* ranged filter is greater than its max entry, the request carries both a
\* min and a max, and the min is not above the max.
C11_MinAboveMaxIsSwapped ==
    Built =>
        \A r \in Ranged :
            (/\ lt(PyInt(0), float(value[r[1]]))
             /\ lt(float(value[r[2]]), float(value[r[1]])))
                => /\ r[1] \in DOMAIN options
                   /\ r[2] \in DOMAIN options
                   /\ le(options[r[1]], options[r[2]])

\* C11: whenever both entries of a ranged filter are numbers greater than 0
\* and the min entry is greater than the max entry, the request carries the
\* max entry (at most 1) as the min and the min entry (at most 1) as the max,
\* and the min is not above the max.
C11_SuppliedMinAboveMaxIsSwapped ==
    Built =>
        \A r \in Ranged :
            LET lo == float(value[r[1]])
                hi == float(value[r[2]])
            IN  (lt(PyInt(0), lo) /\ lt(PyInt(0), hi) /\ lt(hi, lo))
                    => /\ r[1] \in DOMAIN options
                       /\ r[2] \in DOMAIN options
                       /\ Tenths(options[r[1]]) = AtMostOne(hi)
                       /\ Tenths(options[r[2]]) = AtMostOne(lo)
                       /\ le(options[r[1]], options[r[2]])

\* C11 witness: the price entries 0.5 and 0.2 went into a request as
\* min_price 0.2 and max_price 0.5.
C11_Witness ==
    /\ Built
    /\ value["min_price"] = "0.5"
    /\ value["max_price"] = "0.2"
    /\ "min_price" \in DOMAIN options
    /\ options["min_price"] = PyFloat(2)
    /\ options["max_price"] = PyFloat(5)

\* The ranged inputs, which are also the ranged keys of a request.
RangedFields == { r[1] : r \in Ranged } \cup { r[2] : r \in Ranged }

\* C12: a ranged entry that is 0 or less, blank or not a number is not a key
\* of the request, and every ranged key of the request has a value strictly
\* greater than 0.
C12_RangedKeysArePositive ==
    Built =>
        \A f \in RangedFields :
            /\ (float(value[f]) = ValueError \/ le(float(value[f]), PyInt(0)))
                    => f \notin DOMAIN options
            /\ f \in DOMAIN options => lt(PyInt(0), options[f])

\* C13: the request carries participants exactly when the participants
\* entry is an integer greater than 0, and then with that integer.
C13_ParticipantsIffPositiveInteger ==
    Built =>
        LET number == int(value["participants"])
        IN  /\ "participants" \in DOMAIN options
                <=> (number.kind = "int" /\ number.v > 0)
            /\ "participants" \in DOMAIN options
                => options["participants"] = number

\* C13 witness: the entry " 3 " went into a request as participants 3.
C13_Witness ==
    /\ Built
    /\ value["participants"] = " 3 "
    /\ "participants" \in DOMAIN options
    /\ options["participants"] = PyInt(3)

\* C19: every ranged value of a request lies between 0 and 1, and a ranged
\* entry greater than 1 is sent as 1 by its filter, as the min or as the max.
C19_RangedValuesWithinUnitInterval ==
    Built =>
        /\ \A f \in RangedFields :
              f \in DOMAIN options
                  => le(PyInt(0), options[f]) /\ le(options[f], PyInt(1))
        /\ \A r \in Ranged : \A i \in {1, 2} :
              lt(PyInt(1), float(value[r[i]]))
                  => \E j \in {1, 2} :
                        /\ r[j] \in DOMAIN options
                        /\ Tenths(options[r[j]]) = 10

----------------------------------------------------------------------------
\* The inputs

\* Text t is neither blank nor accepted by the cast of input f.
Unparseable(f, t) == strip(t) # "" /\ Cast(CAST(f), t) = ValueError

\* C20: after every edit each numeric input holds a text that is blank or
\* that its cast accepts; an edit to an unparseable text rings the bell and
\* leaves every text as it was, and an edit to a blank or parseable text
\* makes that text the input's text, without a bell.
C20_InputsHoldOnlyAcceptedText ==
    [][ /\ \A f \in Fields : ~Unparseable(f, value'[f])
        /\ IF Unparseable(edit'.field, edit'.text)
           THEN edit'.bell /\ value' = value
           ELSE /\ ~edit'.bell
                /\ value' = [value EXCEPT ![edit'.field] = edit'.text]
      ]_vars

\* C20 witness: the minimum price holds 0.5 after the edit to abc was
\* refused with a bell.
C20_Witness ==
    /\ edit = [field |-> "min_price", text |-> "abc", bell |-> TRUE]
    /\ value["min_price"] = "0.5"

----------------------------------------------------------------------------
\* The document

\* C14: a list read back from the document written for it has the same
\* length, the same order and the same fields in every activity; in the
\* document the type is its string code and the time chosen is ISO-8601
\* text.
C14_LoadOfSaveIsTheList ==
    /\ call.op \in {"save_activity_list", "load_activity_list"}
           => /\ Len(call.text) = Len(call.children)
              /\ \A i \in 1..Len(call.children) :
                   /\ call.text[i].act.type
                          = ActivityTypeValue[call.children[i].act.type.name]
                   /\ call.text[i].chosen_at
                          = isoformat(call.children[i].chosen_at)
    /\ call.op = "load_activity_list"
           => /\ Len(call.after) = Len(call.children)
              /\ \A i \in 1..Len(call.children) :
                   as_dict(call.after[i]) = as_dict(call.children[i])

\* C14 witness: two activities of different types, one chosen at a time with
\* microseconds, have been written and read back.
C14_Witness ==
    /\ call.op = "load_activity_list"
    /\ Len(call.after) = 2
    /\ Len(call.text) = 2
    /\ call.after[1].act.type # call.after[2].act.type
    /\ call.after[1].chosen_at.microsecond = 250000

----------------------------------------------------------------------------
\* Writes, lookups and the focus

----------------------------------------------------------------------------
\* Reports, buttons, the list, the panel

\* The Button.Pressed messages waiting in Main's queue q.
Presses(q) == { i \in 1..Len(q) : q[i].msg = "Pressed" }

\* C22: the handler of an activity stops the Button.Pressed of each of its
\* buttons, so none goes on to Main; in a run only the press of a type
\* button puts a Button.Pressed in Main's queue, and a lookup starts only by
\* Main taking the Button.Pressed of a type button.
C22_OnlyTypeButtonsStartALookup ==
    /\ [](call.op = "on_button_pressed" => Presses(call.posted) = {})
    /\ [][ /\ Cardinality(Presses(mainQ')) > Cardinality(Presses(mainQ))
               => last'.op = "press_type_button"
           /\ inflight' > inflight
               => /\ mainQ # << >>
                  /\ Head(mainQ).msg = "Pressed"
                  /\ Head(mainQ).id \in Buttons
         ]_vars

\* C22 witness: the down button of an activity has been pressed and moved
\* it; what went to Main is the Moved message and no Button.Pressed.
C22_Witness ==
    /\ Pressed("down")
    /\ call.after # call.children
    /\ call.posted = << Msg("Moved", 0) >>

\* How many times widget w is in the list.
Count(children, w) ==
    Cardinality({ i \in 1..Len(children) : children[i] = w })

\* The two lists hold the same widgets, each as many times.
SameWidgets(c, d) ==
    \A w \in { c[i] : i \in 1..Len(c) } \cup { d[i] : i \in 1..Len(d) } :
        Count(c, w) = Count(d, w)

\* The widgets of the list children whose remove is among the callbacks.
Leaving(children, callbacks) ==
    { a \in Ids(children) : \E i \in 1..Len(callbacks) : callbacks[i] = a }

====
